---- MODULE Spec2Model ----
(***************************************************************************)
(* CHIT8: a CHIP-8 emulator and disassembler.                              *)
(*                                                                         *)
(* The module models the emulated RAM (src/src/ram.rs), the opcode         *)
(* dispatch macro decode_opcode! (src/src/disassembler.rs), the CPU and    *)
(* its handlers (src/src/cpu.rs) and the disassembler's handlers           *)
(* (src/src/disassembler.rs).  Numbers are written as in the source        *)
(* (\hNNN is hexadecimal).                                                 *)
(***************************************************************************)
EXTENDS Integers, Sequences, FiniteSets, TLC

VARIABLES
    overflow_checks, \* the build: TRUE = arithmetic overflow panics (debug
                     \* profile), FALSE = it wraps (release profile)
    rom,             \* the Rom the RAM was initialised from
    cpu,             \* the Cpu struct (with its RAM) and whether it panicked
    wait,            \* <<reg>> while ld_k_into_vx polls the input, else <<>>
    prev,            \* history: cpu at the start of the last step()
    last,            \* history: what the last step() fetched and ran
    calls,           \* history: PCs saved by the CALLs not yet returned from
    stored,          \* history: the registers at the last LD [I], Vx
    word,            \* decoder harness: the instruction word under decode
    dis              \* decoder harness: what the dispatch did with `word`

vars == <<overflow_checks, rom, cpu, wait, prev, last, calls, stored, word, dis>>

(***************************************************************************)
(* Fixed-width integers.                                                   *)
(***************************************************************************)
U8_MOD == 256
U16_MOD == 65536
MEM_SIZE == \h1000

U8(x) == x % U8_MOD
U16(x) == x % U16_MOD

RECURSIVE BitAnd(_, _)
BitAnd(a, b) ==
    IF a = 0 \/ b = 0 THEN 0
    ELSE (a % 2) * (b % 2) + 2 * BitAnd(a \div 2, b \div 2)

RECURSIVE BitOr(_, _)
BitOr(a, b) ==
    IF a = 0 THEN b
    ELSE IF b = 0 THEN a
    ELSE (IF a % 2 = 1 \/ b % 2 = 1 THEN 1 ELSE 0) + 2 * BitOr(a \div 2, b \div 2)

RECURSIVE BitXor(_, _)
BitXor(a, b) ==
    IF a = 0 THEN b
    ELSE IF b = 0 THEN a
    ELSE ((a + b) % 2) + 2 * BitXor(a \div 2, b \div 2)

\* x >> n and x << n on unsigned values
Shr(x, n) == x \div (2 ^ n)

(***************************************************************************)
(* Panics.  A Rust panic ends the run; what was written before it stays.   *)
(***************************************************************************)
NoPanic == ""
PANIC_RET == "Return without anything on the stack!"
PANIC_CALL == "Call stack exceeded!"
PANIC_UNKNOWN == "Unknown opcode"
PANIC_OVERFLOW == "attempt to add with overflow"
PANIC_MUL_OVERFLOW == "attempt to multiply with overflow"
PANIC_INDEX == "index out of bounds"

(***************************************************************************)
(* ram.rs.  mem: [u8; 0x1000] is kept as the function of its nonzero       *)
(* bytes: an address outside the domain holds 0, and a store of 0 removes  *)
(* the address, so that two RAMs are equal iff all 4096 bytes agree.       *)
(***************************************************************************)
FONT_DATA ==
    << \hF0, \h90, \h90, \h90, \hF0,
       \h20, \h60, \h20, \h20, \h70,
       \hF0, \h10, \hF0, \h80, \hF0,
       \hF0, \h10, \hF0, \h10, \hF0,
       \h90, \h90, \hF0, \h10, \h10,
       \hF0, \h80, \hF0, \h10, \hF0,
       \hF0, \h80, \hF0, \h90, \hF0,
       \hF0, \h10, \h20, \h40, \h40,
       \hF0, \h90, \hF0, \h90, \hF0,
       \hF0, \h90, \hF0, \h10, \hF0,
       \hF0, \h90, \hF0, \h90, \h90,
       \hE0, \h90, \hE0, \h90, \hE0,
       \hF0, \h80, \h80, \h80, \hF0,
       \hE0, \h90, \h90, \h90, \hE0,
       \hF0, \h80, \hF0, \h80, \hF0,
       \hF0, \h80, \hF0, \h80, \h80 >>

\* Ram::new: { mem: [0; 0x1000] }
Ram_new == [a \in {} |-> 0]

\* Memory::lb: self.mem[addr as usize & 0xFFF]
lb(mem, addr) ==
    LET a == addr % MEM_SIZE
    IN  IF a \in DOMAIN mem THEN mem[a] ELSE 0

\* sb without the & 0xFFF
sb_unmasked(mem, addr, value) ==
    IF value = 0
    THEN [x \in DOMAIN mem \ {addr} |-> mem[x]]
    ELSE [x \in DOMAIN mem \cup {addr} |-> IF x = addr THEN value ELSE mem[x]]

\* Memory::sb: self.mem[addr as usize & 0xFFF] = value
sb(mem, addr, value) ==
    LET a == addr % MEM_SIZE
    IN  IF value = 0
        THEN [x \in DOMAIN mem \ {a} |-> mem[x]]
        ELSE [x \in DOMAIN mem \cup {a} |-> IF x = a THEN value ELSE mem[x]]

\* new_from_rom copying the ROM to 0x201 onwards
Ram_new_from_rom_off_by_one(r) ==
    [a \in (0 .. \h04F) \cup (\h201 .. (\h200 + r.length)) |->
        IF a < \h050 THEN FONT_DATA[a + 1] ELSE r.data[a - \h200]]

\* Ram::new_from_rom: the font at 0x000..0x050, rom.data[0..rom.length] at 0x200
Ram_new_from_rom(r) ==
    LET byte(a) ==
            IF a < \h050 THEN FONT_DATA[a + 1]
            ELSE IF a >= \h200 /\ a < \h200 + r.length THEN r.data[a - \h200 + 1]
            ELSE 0
        used == (0 .. \h04F) \cup (\h200 .. (\h200 + r.length - 1))
    IN  [a \in {x \in used : byte(x) # 0} |-> byte(a)]

(***************************************************************************)
(* disassembler.rs, decode_opcode!: the handler a word selects and the     *)
(* arguments it is called with.  The match arms are tried in source order. *)
(***************************************************************************)
\* The masks keep a run of low bits (x & (2^k - 1) = x % 2^k) and the
\* shifts drop the bits below it.
Nib2(op) == (op \div \h100) % \h10       \* ((op & 0x0F00) >> 8) as u8
\* (op & 0x00F0) without the >> 4
Nib3_unshifted(op) == ((op \div \h10) % \h10) * \h10
Nib3(op) == (op \div \h10) % \h10        \* ((op & 0x00F0) >> 4) as u8
Nib4(op) == op % \h10                    \* (op & 0x000F) as u8
LowByte(op) == op % \h100                \* (op & 0x00FF) as u8
Addr12(op) == op % \h1000                \* op & 0x0FFF

Call(h, args) == [h |-> h, args |-> args]

decode_8(op) ==
    LET n == Nib4(op)
        xy == <<Nib2(op), Nib3(op)>>
        x == <<Nib2(op)>>
    IN  IF n = \h0 THEN Call("ld", xy)
        ELSE IF n = \h1 THEN Call("or", xy)
        ELSE IF n = \h2 THEN Call("and", xy)
        ELSE IF n = \h3 THEN Call("xor", xy)
        ELSE IF n = \h4 THEN Call("add_reg", xy)
        ELSE IF n = \h5 THEN Call("sub", xy)
        ELSE IF n = \h6 THEN Call("shr", x)
        ELSE IF n = \h7 THEN Call("subn", xy)
        ELSE IF n = \hE THEN Call("shl", x)
        ELSE Call("unknown_opcode", <<op>>)

decode_E(op) ==
    LET kk == LowByte(op)
        x == <<Nib2(op)>>
    IN  IF kk = \h9E THEN Call("skp", x)
        ELSE IF kk = \hA1 THEN Call("sknp", x)
        ELSE Call("unknown_opcode", <<op>>)

decode_F(op) ==
    LET kk == LowByte(op)
        x == <<Nib2(op)>>
    IN  IF kk = \h07 THEN Call("ld_dt_into_vx", x)
        ELSE IF kk = \h0A THEN Call("ld_k_into_vx", x)
        ELSE IF kk = \h15 THEN Call("ld_vx_into_dt", x)
        ELSE IF kk = \h18 THEN Call("ld_vx_into_st", x)
        ELSE IF kk = \h1E THEN Call("add_vx", x)
        ELSE IF kk = \h29 THEN Call("ld_vx_digit_into_f", x)
        ELSE IF kk = \h33 THEN Call("ld_vx_into_bcd", x)
        ELSE IF kk = \h55 THEN Call("ld_v0_to_vx_into_i", x)
        ELSE IF kk = \h65 THEN Call("ld_i_into_v0_to_vx", x)
        ELSE Call("unknown_opcode", <<op>>)

decode_opcode(op) ==
    IF op = \h00E0 THEN Call("cls", <<>>)
    ELSE IF op = \h00EE THEN Call("ret", <<>>)
    ELSE IF op <= \h0FFF THEN Call("sys", <<Addr12(op)>>)
    ELSE IF op <= \h1FFF THEN Call("jp", <<Addr12(op)>>)
    ELSE IF op <= \h2FFF THEN Call("call", <<Addr12(op)>>)
    ELSE IF op <= \h3FFF THEN Call("se", <<Nib2(op), LowByte(op)>>)
    ELSE IF op <= \h4FFF THEN Call("sne", <<Nib2(op), LowByte(op)>>)
    ELSE IF op <= \h5FFF THEN Call("se_reg", <<Nib2(op), Nib3(op)>>)
    ELSE IF op <= \h6FFF THEN Call("ldx", <<Nib2(op), LowByte(op)>>)
    ELSE IF op <= \h7FFF THEN Call("add_byte", <<Nib2(op), LowByte(op)>>)
    ELSE IF op <= \h8FFF THEN decode_8(op)
    ELSE IF op <= \h9FFF THEN
        (IF Nib4(op) = \h0 THEN Call("sne_reg", <<Nib2(op), Nib3(op)>>)
         ELSE Call("unknown_opcode", <<op>>))
    ELSE IF op <= \hAFFF THEN Call("ldi", <<Addr12(op)>>)
    ELSE IF op <= \hBFFF THEN Call("jp_v0", <<Addr12(op)>>)
    ELSE IF op <= \hCFFF THEN Call("rnd", <<Nib2(op), LowByte(op)>>)
    ELSE IF op <= \hDFFF THEN Call("drw", <<Nib2(op), Nib3(op), Nib4(op)>>)
    ELSE IF op <= \hEFFF THEN decode_E(op)
    ELSE decode_F(op)

(***************************************************************************)
(* disassembler.rs: the text each handler of the Disassembler returns.     *)
(***************************************************************************)
HEX_DIGITS == << "0", "1", "2", "3", "4", "5", "6", "7",
                 "8", "9", "A", "B", "C", "D", "E", "F" >>

\* {:X}: upper-case hexadecimal, no padding
RECURSIVE FmtX(_)
FmtX(n) == IF n < 16 THEN HEX_DIGITS[n + 1] ELSE FmtX(n \div 16) \o HEX_DIGITS[(n % 16) + 1]

\* {:#X}: the same after "0x"
FmtAltX(n) == "0x" \o FmtX(n)

\* {:0>4X}: right-aligned in 4 columns, filled with '0'
Fmt04X(n) ==
    (IF n < \h1000 THEN "0" ELSE "") \o (IF n < \h100 THEN "0" ELSE "")
        \o (IF n < \h10 THEN "0" ELSE "") \o FmtX(n)

\* Disassembler::cls .. Disassembler::unknown_opcode, by handler name
Disassembler_handler(h, a) ==
    CASE h = "cls" -> "CLS"
      [] h = "ret" -> "RET"
      [] h = "sys" -> "SYS 0x" \o Fmt04X(a[1])
      [] h = "jp" -> "JP " \o FmtAltX(a[1])
      [] h = "call" -> "CALL " \o FmtAltX(a[1])
      [] h = "se" -> "SE V" \o FmtX(a[1]) \o ", " \o FmtX(a[2])
      [] h = "sne" -> "SNE V" \o FmtX(a[1]) \o ", " \o FmtX(a[2])
      [] h = "se_reg" -> "SE V" \o FmtX(a[1]) \o ", V" \o FmtX(a[2])
      [] h = "ldx" -> "LD V" \o FmtX(a[1]) \o ", " \o FmtAltX(a[2])
      [] h = "add_byte" -> "ADD V" \o FmtX(a[1]) \o ", " \o FmtX(a[2])
      [] h = "ld" -> "LD V" \o FmtX(a[1]) \o ", V" \o FmtX(a[2])
      [] h = "or" -> "OR V" \o FmtX(a[1]) \o ", V" \o FmtX(a[2])
      [] h = "and" -> "AND V" \o FmtX(a[1]) \o ", V" \o FmtX(a[2])
      [] h = "xor" -> "XOR V" \o FmtX(a[1]) \o ", V" \o FmtX(a[2])
      [] h = "add_reg" -> "ADD V" \o FmtX(a[1]) \o ", V" \o FmtX(a[2])
      [] h = "sub" -> "SUB V" \o FmtX(a[1]) \o ", V" \o FmtX(a[2])
      [] h = "shr" -> "SHR V" \o FmtX(a[1])
      [] h = "subn" -> "SUBN V" \o FmtX(a[1]) \o ", V" \o FmtX(a[2])
      [] h = "shl" -> "SHR V" \o FmtX(a[1])
      [] h = "sne_reg" -> "SNE V" \o FmtX(a[1]) \o ", V" \o FmtX(a[2])
      [] h = "ldi" -> "LD I, " \o FmtAltX(a[1])
      [] h = "jp_v0" -> "JP V0, " \o FmtAltX(a[1])
      [] h = "rnd" -> "RND V" \o FmtX(a[1]) \o ", " \o FmtX(a[2])
      [] h = "drw" -> "DRW (V" \o FmtX(a[1]) \o ", V" \o FmtX(a[2]) \o ") for "
                          \o FmtX(a[3]) \o " bytes"
      [] h = "skp" -> "SKP V" \o FmtX(a[1])
      [] h = "sknp" -> "SKNP V" \o FmtX(a[1])
      [] h = "ld_dt_into_vx" -> "LD V" \o FmtX(a[1]) \o ", DT"
      [] h = "ld_k_into_vx" -> "LD V" \o FmtX(a[1]) \o ", K"
      [] h = "ld_vx_into_dt" -> "LD DT, V" \o FmtX(a[1])
      [] h = "ld_vx_into_st" -> "LD ST, V" \o FmtX(a[1])
      [] h = "add_vx" -> "ADD I, V" \o FmtX(a[1])
      [] h = "ld_vx_digit_into_f" -> "LD F, V" \o FmtX(a[1])
      [] h = "ld_vx_into_bcd" -> "LD B, V" \o FmtX(a[1])
      [] h = "ld_v0_to_vx_into_i" -> "LD [I], V" \o FmtX(a[1])
      [] h = "ld_i_into_v0_to_vx" -> "LD V" \o FmtX(a[1]) \o ", [I]"
      [] h = "unknown_opcode" -> "Unknown opcode: 0x" \o Fmt04X(a[1])

\* decode_opcode!(op, self) with self a Disassembler: the text of the line
Disassembler_decode(op) ==
    LET d == decode_opcode(op) IN Disassembler_handler(d.h, d.args)

(***************************************************************************)
(* cpu.rs: the Cpu struct.  `panic` is NoPanic while the thread runs.      *)
(***************************************************************************)
STACK_LEN == 16
NUM_REGS == 16
NUM_KEYS == 16

Regs == 0 .. (NUM_REGS - 1)
Slots == 0 .. (STACK_LEN - 1)
Keys == 0 .. (NUM_KEYS - 1)

\* Cpu::new
Cpu_new(ram) ==
    [ram |-> ram, pc |-> \h200, v |-> [r \in Regs |-> 0], i |-> 0,
     stack |-> [s \in Slots |-> 0], dt |-> 0, st |-> 0, panic |-> NoPanic]

Panic(c, msg) == [c EXCEPT !.panic = msg]

\* a + b on u16 panics with overflow checks, and wraps without
Overflows16(a, b) == a + b >= U16_MOD /\ overflow_checks

\* self.pc = self.pc + 2
SkipNext(c) ==
    IF Overflows16(c.pc, 2) THEN Panic(c, PANIC_OVERFLOW)
    ELSE [c EXCEPT !.pc = U16(c.pc + 2)]

\* next_opcode: <<cpu after the fetch, opcode>>
next_opcode(c) ==
    LET hi == lb(c.ram, c.pc) * \h100                    \* (lb(pc) as u16) << 8
    IN  IF Overflows16(c.pc, 1)
        THEN <<Panic(c, PANIC_OVERFLOW), 0>>
        ELSE LET low == lb(c.ram, U16(c.pc + 1))
             IN  <<SkipNext(c), low + hi>>         \* low | hi: no bit in both

\* update_timers without its tests for > 0: the u8 wraps
update_timers_wrapping(c) ==
    [c EXCEPT !.dt = U8(c.dt + U8_MOD - 1), !.st = U8(c.st + U8_MOD - 1)]

update_timers(c) ==
    LET c1 == IF c.dt > 0 THEN [c EXCEPT !.dt = c.dt - 1] ELSE c
    IN  IF c1.st > 0 THEN [c1 EXCEPT !.st = c1.st - 1] ELSE c1

\* cls clearing memory, the loaded program with it
cls_clears_memory(c) == [c EXCEPT !.ram = Ram_new]

cls(c) == c

\* the first index i with stack[i] == 0, STACK_LEN when the scan finds none
FirstZero(stack) ==
    IF \E s \in Slots : stack[s] = 0
    THEN CHOOSE s \in Slots : stack[s] = 0 /\ \A t \in 0 .. (s - 1) : stack[t] # 0
    ELSE STACK_LEN

\* ret reading slot i where it should read slot i - 1
ret_off_by_one(c) ==
    IF c.stack[0] = 0 THEN Panic(c, PANIC_RET)
    ELSE LET z == FirstZero(c.stack)
             top == IF z < STACK_LEN THEN z ELSE 15
         IN  [c EXCEPT !.pc = c.stack[top], !.stack[top] = 0]

\* ret without the fallback of a full stack: nothing is restored
ret_without_fallback(c) ==
    IF c.stack[0] = 0 THEN Panic(c, PANIC_RET)
    ELSE LET z == FirstZero(c.stack)
         IN  IF z < STACK_LEN THEN [c EXCEPT !.pc = c.stack[z - 1], !.stack[z - 1] = 0]
             ELSE c

\* ret restoring from the bottom of the stack
ret_from_bottom(c) ==
    IF c.stack[0] = 0 THEN Panic(c, PANIC_RET)
    ELSE [c EXCEPT !.pc = c.stack[0], !.stack[0] = 0]

ret(c) ==
    IF c.stack[0] = 0 THEN Panic(c, PANIC_RET)
    ELSE LET z == FirstZero(c.stack)
             top == IF z < STACK_LEN THEN z - 1 ELSE 15
         IN  [c EXCEPT !.pc = c.stack[top], !.stack[top] = 0]

\* sys transferring control to its operand
sys_jumps(c, addr) == [c EXCEPT !.pc = addr]
sys(c, addr) == c

jp(c, addr) == [c EXCEPT !.pc = addr]

\* call without its test of `found`: a full stack loses its last slot
call_overwrites_when_full(c, addr) ==
    LET z == FirstZero(c.stack)
        slot == IF z = STACK_LEN THEN 15 ELSE z
    IN  [c EXCEPT !.stack[slot] = c.pc, !.pc = addr]

call(c, addr) ==
    LET z == FirstZero(c.stack)
    IN  IF z = STACK_LEN THEN Panic(c, PANIC_CALL)
        ELSE [c EXCEPT !.stack[z] = c.pc, !.pc = addr]

se(c, reg, val) == IF c.v[reg] = val THEN SkipNext(c) ELSE c

sne(c, reg, val) == IF c.v[reg] # val THEN SkipNext(c) ELSE c

se_reg(c, reg1, reg2) == IF c.v[reg1] = c.v[reg2] THEN SkipNext(c) ELSE c

ldx(c, reg, val) == [c EXCEPT !.v[reg] = val]

add_byte(c, reg, byte) == [c EXCEPT !.v[reg] = U8(c.v[reg] + byte)]

ld(c, reg1, reg2) == [c EXCEPT !.v[reg1] = c.v[reg2]]

or(c, reg1, reg2) == [c EXCEPT !.v[reg1] = BitOr(c.v[reg1], c.v[reg2])]

and(c, reg1, reg2) == [c EXCEPT !.v[reg1] = BitAnd(c.v[reg1], c.v[reg2])]

xor(c, reg1, reg2) == [c EXCEPT !.v[reg1] = BitXor(c.v[reg1], c.v[reg2])]

\* add_reg reading v[reg2] again after the flag is written
add_reg_rereads_operand(c, reg1, reg2) ==
    LET v1 == c.v[reg1]
        f == [c.v EXCEPT ![\hF] = IF v1 + c.v[reg2] > \hFF THEN 1 ELSE 0]
    IN  [c EXCEPT !.v = [f EXCEPT ![reg1] = U8(v1 + f[reg2])]]

\* the flag is written to v[0xF] first, the result to v[reg1] second
add_reg(c, reg1, reg2) ==
    LET v1 == c.v[reg1]
        v2 == c.v[reg2]
        f == [c.v EXCEPT ![\hF] = IF v1 + v2 > \hFF THEN 1 ELSE 0]
    IN  [c EXCEPT !.v = [f EXCEPT ![reg1] = U8(v1 + v2)]]

\* sub with v1 >= v2 for v1 > v2
sub_flag_on_equal(c, reg1, reg2) ==
    LET v1 == c.v[reg1]
        v2 == c.v[reg2]
        f == [c.v EXCEPT ![\hF] = IF v1 >= v2 THEN 1 ELSE 0]
    IN  [c EXCEPT !.v = [f EXCEPT ![reg1] = U8(v1 - v2 + U8_MOD)]]

sub(c, reg1, reg2) ==
    LET v1 == c.v[reg1]
        v2 == c.v[reg2]
        f == [c.v EXCEPT ![\hF] = IF v1 > v2 THEN 1 ELSE 0]
    IN  [c EXCEPT !.v = [f EXCEPT ![reg1] = U8(v1 - v2 + U8_MOD)]]

shr(c, reg) ==
    LET val == c.v[reg]
        f == [c.v EXCEPT ![\hF] = IF BitAnd(1, val) = 1 THEN 1 ELSE 0]
    IN  [c EXCEPT !.v = [f EXCEPT ![reg] = Shr(val, 1)]]

subn(c, reg1, reg2) ==
    LET v1 == c.v[reg1]
        v2 == c.v[reg2]
        f == [c.v EXCEPT ![\hF] = IF v2 > v1 THEN 1 ELSE 0]
    IN  [c EXCEPT !.v = [f EXCEPT ![reg1] = U8(v2 - v1 + U8_MOD)]]

\* shl taking the flag from the shifted value
shl_flag_after_shift(c, reg) ==
    LET val == U8(c.v[reg] * 2)
        f == [c.v EXCEPT ![\hF] = IF Shr(BitAnd(\h80, val), 7) = 1 THEN 1 ELSE 0]
    IN  [c EXCEPT !.v = [f EXCEPT ![reg] = val]]

shl(c, reg) ==
    LET val == c.v[reg]
        f == [c.v EXCEPT ![\hF] = IF Shr(BitAnd(\h80, val), 7) = 1 THEN 1 ELSE 0]
    IN  [c EXCEPT !.v = [f EXCEPT ![reg] = U8(val * 2)]]

sne_reg(c, reg1, reg2) == IF c.v[reg1] # c.v[reg2] THEN SkipNext(c) ELSE c

ldi(c, val) == [c EXCEPT !.i = val]

\* addr <= 0xFFF and v[0] <= 0xFF: the sum cannot overflow a u16
jp_v0(c, addr) == [c EXCEPT !.pc = addr + c.v[0]]

\* random is the byte self.rng.gen::<u8>() returned
rnd(c, reg, byte, random) == [c EXCEPT !.v[reg] = BitAnd(random, byte)]

drw(c, xreg, yreg, bytes) == c

\* skp indexing the snapshot with the register number, not with its value
skp_by_register_number(c, reg, state) ==
    IF state[reg] THEN SkipNext(c) ELSE c

\* state is the snapshot self.input.get_key_states() returned
skp(c, reg, state) ==
    LET key == c.v[reg]
    IN  IF key >= NUM_KEYS THEN Panic(c, PANIC_INDEX)
        ELSE IF state[key] THEN SkipNext(c) ELSE c

sknp(c, reg, state) ==
    LET key == c.v[reg]
    IN  IF key >= NUM_KEYS THEN Panic(c, PANIC_INDEX)
        ELSE IF ~state[key] THEN SkipNext(c) ELSE c

ld_dt_into_vx(c, reg) == [c EXCEPT !.v[reg] = c.dt]

\* one iteration of the loop of ld_k_into_vx: the first pressed key of the
\* snapshot, or no change (and another iteration) when none is pressed
AnyPressed(state) == \E k \in Keys : state[k]
\* the scan keeping the last pressed key it meets, not the first
FirstPressed_last(state) == CHOOSE k \in Keys : state[k] /\ \A j \in (k + 1) .. (NUM_KEYS - 1) : ~state[j]
FirstPressed(state) == CHOOSE k \in Keys : state[k] /\ \A j \in 0 .. (k - 1) : ~state[j]
\* ld_k_into_vx counting the timers down in an iteration that finds no key
ld_k_into_vx_ticking(c, reg, state) ==
    IF AnyPressed(state) THEN [c EXCEPT !.v[reg] = FirstPressed(state)] ELSE update_timers(c)

ld_k_into_vx(c, reg, state) ==
    IF AnyPressed(state) THEN [c EXCEPT !.v[reg] = FirstPressed(state)] ELSE c

\* ld_vx_into_dt making up for the decrement that ends the step
ld_vx_into_dt_plus_one(c, reg) == [c EXCEPT !.dt = U8(c.v[reg] + 1)]

ld_vx_into_dt(c, reg) == [c EXCEPT !.dt = c.v[reg]]

ld_vx_into_st(c, reg) == [c EXCEPT !.st = c.v[reg]]

add_vx(c, reg) ==
    IF Overflows16(c.i, c.v[reg]) THEN Panic(c, PANIC_OVERFLOW)
    ELSE [c EXCEPT !.i = U16(c.i + c.v[reg])]

\* ld_vx_digit_into_f with 4 bytes per digit
ld_vx_digit_into_f_four_bytes(c, reg) ==
    IF c.v[reg] * 4 >= U8_MOD /\ overflow_checks THEN Panic(c, PANIC_MUL_OVERFLOW)
    ELSE [c EXCEPT !.i = U8(c.v[reg] * 4)]

\* (self.v[reg] * 5) as u16: the product is a u8
ld_vx_digit_into_f(c, reg) ==
    IF c.v[reg] * 5 >= U8_MOD /\ overflow_checks THEN Panic(c, PANIC_MUL_OVERFLOW)
    ELSE [c EXCEPT !.i = U8(c.v[reg] * 5)]

\* u8::to_string: the decimal digits, most significant first, no padding
RECURSIVE to_string(_)
to_string(n) == IF n < 10 THEN <<n>> ELSE Append(to_string(n \div 10), n % 10)

\* iterations k..2 of the loop of ld_vx_into_bcd; addr = addr + 1 ends each
RECURSIVE bcd_loop(_, _, _, _)
bcd_loop(c, digits, k, addr) ==
    IF k >= 3 \/ c.panic # NoPanic THEN c
    ELSE LET start_index == 3 - Len(digits)
             byte == IF k < start_index THEN 0 ELSE digits[k - start_index + 1]
             c1 == [c EXCEPT !.ram = sb(c.ram, addr, byte)]
         IN  IF Overflows16(addr, 1) THEN Panic(c1, PANIC_OVERFLOW)
             ELSE bcd_loop(c1, digits, k + 1, U16(addr + 1))

\* ld_vx_into_bcd without start_index: the digits go to I onwards unpadded
ld_vx_into_bcd_unpadded(c, reg) ==
    LET digits == to_string(c.v[reg]) \o << 0, 0 >>
    IN  bcd_loop(c, SubSeq(digits, 1, 3), 0, c.i)

ld_vx_into_bcd(c, reg) == bcd_loop(c, to_string(c.v[reg]), 0, c.i)

\* iterations k..reg of the loop of ld_v0_to_vx_into_i
RECURSIVE store_loop(_, _, _, _)
store_loop(c, reg, k, addr) ==
    IF k > reg \/ c.panic # NoPanic THEN c
    ELSE LET c1 == [c EXCEPT !.ram = sb(c.ram, addr, c.v[k])]
         IN  IF Overflows16(addr, 1) THEN Panic(c1, PANIC_OVERFLOW)
             ELSE store_loop(c1, reg, k + 1, U16(addr + 1))

\* ld_v0_to_vx_into_i looping over 0..reg+2: one register too many
ld_v0_to_vx_into_i_one_more(c, reg) ==
    store_loop(c, IF reg < \hF THEN reg + 1 ELSE reg, 0, c.i)

ld_v0_to_vx_into_i(c, reg) == store_loop(c, reg, 0, c.i)

\* iterations k..reg of the loop of ld_i_into_v0_to_vx
RECURSIVE load_loop(_, _, _, _)
load_loop(c, reg, k, addr) ==
    IF k > reg \/ c.panic # NoPanic THEN c
    ELSE LET c1 == [c EXCEPT !.v[k] = lb(c.ram, addr)]
         IN  IF Overflows16(addr, 1) THEN Panic(c1, PANIC_OVERFLOW)
             ELSE load_loop(c1, reg, k + 1, U16(addr + 1))

\* ld_i_into_v0_to_vx reading the block from its end
ld_i_into_v0_to_vx_reversed(c, reg) ==
    [c EXCEPT !.v = [k \in Regs |->
        IF k <= reg THEN lb(c.ram, c.i + reg - k) ELSE c.v[k]]]

ld_i_into_v0_to_vx(c, reg) == load_loop(c, reg, 0, c.i)

unknown_opcode(c, op) == Panic(c, PANIC_UNKNOWN)

(***************************************************************************)
(* rom.rs, Rom::new: at most 0xCA0 bytes of the file are read.             *)
(***************************************************************************)
ROM_MAX == \hCA0

Rom_new(readable) ==
    LET length == IF Len(readable) < ROM_MAX THEN Len(readable) ELSE ROM_MAX
    IN  [data |-> SubSeq(readable, 1, length), length |-> length]

\* a program, given as 16-bit words, as the big-endian bytes of its file
Bytes(words) ==
    [j \in 1 .. (2 * Len(words)) |->
        IF j % 2 = 1 THEN words[(j + 1) \div 2] \div 256 ELSE words[j \div 2] % 256]

(***************************************************************************)
(* The environment: the programs loaded, the key snapshots the input       *)
(* returns and the bytes the random generator returns.                     *)
(***************************************************************************)
NumVals == 5     \* how many of SampleVals the programs load into registers
MaxNest == 17    \* the deepest nesting of CALLs among the programs

SampleVals == << \h00, \h01, \hFF, \h10, \h34, \h80, \h64, \h0F, \h7F, \hC8 >>
Vals == {SampleVals[k] : k \in 1 .. (IF NumVals < Len(SampleVals) THEN NumVals ELSE Len(SampleVals))}
IVals == {\h300, \hFFE}

PressedSets == {{}, {0}, {1, 15}, {0, 5}}
KeyStates == {[k \in Keys |-> k \in p] : p \in PressedSets}
NoKeys == [k \in Keys |-> FALSE]
RandBytes == {\h00, \h5A, \hFF}

END == \hFFFF    \* an undefined word: the program ends there

\* the instruction under test, run at 0x20A with V1 = a, V2 = b, I = i,
\* DT = a - 1 and ST = b (when not 0); 0x20C and 0x20E end the program
TestWords ==
    { \h00E0, \h00EE, \h0000, \h0123,
      \h120C, \h1000, \h120D,
      \h220C, \h2000, \h220A,
      \h3100, \h3110, \h31FF, \h4100, \h4110, \h41FF,
      \h5120, \h5121, \h511F,
      \h61AB, \h6F01, \h7101, \h71FF,
      \h8120, \h8121, \h8122, \h8123, \h8124, \h8125, \h8126, \h8127, \h812E,
      \h8128, \h8129, \h812A, \h812B, \h812C, \h812D, \h812F,
      \h9120, \h9121, \h912F,
      \hA000, \hAFFF, \hB000, \hB20C, \hB20E,
      \hC1FF, \hC10F, \hD000, \hD125,
      \hE19E, \hE1A1, \hE100, \hE19F, \hE1A0,
      \hF107, \hF10A, \hF115, \hF118, \hF11E, \hF129, \hF133, \hF155, \hF165,
      \hF100, \hF133 + 1, \hF1FF }

TestProg(a, b, i, w) ==
    << \h6100 + a, \h6200 + b, \hA000 + i, \hF115, \hF218, w, END, END >>

\* n nested CALLs, each to the next 4 bytes on, then n RETs; the CALL at
\* 0x200 + 4k saves 0x202 + 4k, where a RET (k > 0) or the end (k = 0) waits
NestProg(n) ==
    [j \in 1 .. (2 * n + 1) |->
        IF j = 2 * n + 1 THEN \h00EE
        ELSE IF j % 2 = 1 THEN \h2000 + \h200 + 2 * (j + 1)
        ELSE IF j = 2 THEN END
        ELSE \h00EE]

\* ADD I, V1 with V1 = 0xFF, 0xF2 times: I passes 0xFFFF
AddIProg == << \h61FF, \hAFFF, \hF11E, \h7201, \h32F2, \h1204, END >>

\* A program that runs PC up to 0xFFFC.  Each pass over the 4096 bytes it
\* zeroes V0..V9, zeroes the font (0x000..0x04F), and writes
\*     0xFF6: ADD VB, 1        0xFF8: SNE VB, 0x10    0xFFA: RND VA, 0x10
\*     0xFFC: SNE VA, 0x10     0xFFE: CALL 0x250
\* so that RND runs only in the 16th pass: with VA = 0 the SNE fetched at
\* PC = 0xFFFC skips, with VA = 0x10 the CALL is fetched at PC = 0xFFFE;
\* 0x250: SNE VA, 0x10   0x252: RET   (the RET runs only after that CALL);
\* 0x200: SNE VB, 0x10   0x202: undefined   (ends a 17th pass).
WrapProg ==
    << \h4B10, END,
       \h6000, \h6100, \h6200, \h6300, \h6400, \h6500, \h6600, \h6700, \h6800, \h6900,
       \hA000, \hF955, \hA00A, \hF955, \hA014, \hF955, \hA01E, \hF955,
       \hA028, \hF955, \hA032, \hF955, \hA03C, \hF955, \hA046, \hF955,
       \h607B, \h6101, \h624B, \h6310, \h64CA, \h6510, \h664A, \h6710, \h6822, \h6950,
       \hAFF6, \hF955,
       \h4A10, \h00EE >>

\* LD ST,V1 and LD DT,V1 with V1 = n, and LD V2,DT in the very next step
TimerProg(n) == << \h6100 + n, \hF118, \hF115, \hF207, END >>

Programs ==
    {TestProg(a, b, i, w) : a \in Vals, b \in Vals, i \in IVals, w \in TestWords}
    \cup {NestProg(n) : n \in 1 .. MaxNest}
    \cup {TimerProg(n) : n \in Vals}
    \cup {AddIProg, WrapProg, << \h2200 >>}

Roms == {Rom_new(Bytes(p)) : p \in Programs}

(***************************************************************************)
(* cpu.rs, step(): next_opcode, decode_opcode!, update_timers.  There is   *)
(* one action per handler the dispatch can select.                         *)
(***************************************************************************)
\* op, h, args: the word fetched, the handler selected and its arguments;
\* pc: PC as the handler found it; env: what the input or the generator
\* returned; done: step() returned; live: `calls` at the start of the step
NoStep == [op |-> 0, h |-> "", args |-> << >>, pc |-> 0, env |-> << >>,
           done |-> FALSE, live |-> << >>]
StepRec(env, done) ==
    [op |-> next_opcode(cpu)[2], h |-> decode_opcode(next_opcode(cpu)[2]).h,
     args |-> decode_opcode(next_opcode(cpu)[2]).args, pc |-> next_opcode(cpu)[1].pc,
     env |-> env, done |-> done, live |-> calls]
NoDis == [done |-> FALSE, h |-> "", args |-> << >>, text |-> ""]

Running == cpu.panic = NoPanic /\ wait = << >>
Fetched == next_opcode(cpu)
Decoded == decode_opcode(Fetched[2])
Arg(k) == Decoded.args[k]

Dispatch(h) ==
    /\ Running
    /\ Fetched[1].panic = NoPanic
    /\ Decoded.h = h

\* the handler returned c: update_timers runs unless it panicked
Commit(c, env) ==
    /\ cpu' = IF c.panic = NoPanic THEN update_timers(c) ELSE c
    /\ prev' = cpu
    /\ last' = StepRec(env, c.panic = NoPanic)
    /\ calls' = IF c.panic # NoPanic THEN calls
                ELSE IF Decoded.h = "call" THEN Append(calls, Fetched[1].pc)
                ELSE IF Decoded.h = "ret" /\ calls # << >> THEN SubSeq(calls, 1, Len(calls) - 1)
                ELSE calls
    /\ UNCHANGED <<overflow_checks, rom, wait, stored, word, dis>>

\* next_opcode itself panics
step_next_opcode ==
    /\ Running
    /\ Fetched[1].panic # NoPanic
    /\ cpu' = Fetched[1]
    /\ prev' = cpu
    /\ last' = [NoStep EXCEPT !.h = "next_opcode", !.pc = Fetched[1].pc, !.live = calls]
    /\ UNCHANGED <<overflow_checks, rom, wait, calls, stored, word, dis>>

step_cls == Dispatch("cls") /\ Commit(cls(Fetched[1]), << >>)
step_ret == Dispatch("ret") /\ Commit(ret(Fetched[1]), << >>)
step_sys == Dispatch("sys") /\ Commit(sys(Fetched[1], Arg(1)), << >>)
step_jp == Dispatch("jp") /\ Commit(jp(Fetched[1], Arg(1)), << >>)
step_call == Dispatch("call") /\ Commit(call(Fetched[1], Arg(1)), << >>)
step_se == Dispatch("se") /\ Commit(se(Fetched[1], Arg(1), Arg(2)), << >>)
step_sne == Dispatch("sne") /\ Commit(sne(Fetched[1], Arg(1), Arg(2)), << >>)
step_se_reg == Dispatch("se_reg") /\ Commit(se_reg(Fetched[1], Arg(1), Arg(2)), << >>)
step_ldx == Dispatch("ldx") /\ Commit(ldx(Fetched[1], Arg(1), Arg(2)), << >>)
step_add_byte == Dispatch("add_byte") /\ Commit(add_byte(Fetched[1], Arg(1), Arg(2)), << >>)
step_ld == Dispatch("ld") /\ Commit(ld(Fetched[1], Arg(1), Arg(2)), << >>)
step_or == Dispatch("or") /\ Commit(or(Fetched[1], Arg(1), Arg(2)), << >>)
step_and == Dispatch("and") /\ Commit(and(Fetched[1], Arg(1), Arg(2)), << >>)
step_xor == Dispatch("xor") /\ Commit(xor(Fetched[1], Arg(1), Arg(2)), << >>)
step_add_reg == Dispatch("add_reg") /\ Commit(add_reg(Fetched[1], Arg(1), Arg(2)), << >>)
step_sub == Dispatch("sub") /\ Commit(sub(Fetched[1], Arg(1), Arg(2)), << >>)
step_shr == Dispatch("shr") /\ Commit(shr(Fetched[1], Arg(1)), << >>)
step_subn == Dispatch("subn") /\ Commit(subn(Fetched[1], Arg(1), Arg(2)), << >>)
step_shl == Dispatch("shl") /\ Commit(shl(Fetched[1], Arg(1)), << >>)
step_sne_reg == Dispatch("sne_reg") /\ Commit(sne_reg(Fetched[1], Arg(1), Arg(2)), << >>)
step_ldi == Dispatch("ldi") /\ Commit(ldi(Fetched[1], Arg(1)), << >>)
step_jp_v0 == Dispatch("jp_v0") /\ Commit(jp_v0(Fetched[1], Arg(1)), << >>)
step_rnd ==
    /\ Dispatch("rnd")
    /\ \E random \in RandBytes : Commit(rnd(Fetched[1], Arg(1), Arg(2), random), <<random>>)
step_drw == Dispatch("drw") /\ Commit(drw(Fetched[1], Arg(1), Arg(2), Arg(3)), << >>)
step_skp ==
    /\ Dispatch("skp")
    /\ \E state \in KeyStates : Commit(skp(Fetched[1], Arg(1), state), state)
step_sknp ==
    /\ Dispatch("sknp")
    /\ \E state \in KeyStates : Commit(sknp(Fetched[1], Arg(1), state), state)
step_ld_dt_into_vx == Dispatch("ld_dt_into_vx") /\ Commit(ld_dt_into_vx(Fetched[1], Arg(1)), << >>)

\* the first iteration of the loop of ld_k_into_vx: with a key pressed the
\* handler returns and step() goes on; with none step() stays in the loop
step_ld_k_into_vx ==
    /\ Dispatch("ld_k_into_vx")
    /\ \E state \in KeyStates :
        IF AnyPressed(state)
        THEN Commit(ld_k_into_vx(Fetched[1], Arg(1), state), state)
        ELSE /\ cpu' = ld_k_into_vx(Fetched[1], Arg(1), state)
             /\ prev' = cpu
             /\ wait' = <<Arg(1)>>
             /\ last' = StepRec(state, FALSE)
             /\ UNCHANGED <<overflow_checks, rom, calls, stored, word, dis>>

\* a later iteration of that loop
poll_ld_k_into_vx ==
    /\ cpu.panic = NoPanic
    /\ wait # << >>
    /\ \E state \in KeyStates :
        IF AnyPressed(state)
        THEN /\ cpu' = update_timers(ld_k_into_vx(cpu, wait[1], state))
             /\ wait' = << >>
             /\ last' = [last EXCEPT !.env = state, !.done = TRUE]
             /\ UNCHANGED <<overflow_checks, rom, prev, calls, stored, word, dis>>
        ELSE /\ cpu' = ld_k_into_vx(cpu, wait[1], state)
             /\ UNCHANGED <<overflow_checks, rom, wait, prev, last, calls, stored, word, dis>>

step_ld_vx_into_dt == Dispatch("ld_vx_into_dt") /\ Commit(ld_vx_into_dt(Fetched[1], Arg(1)), << >>)
step_ld_vx_into_st == Dispatch("ld_vx_into_st") /\ Commit(ld_vx_into_st(Fetched[1], Arg(1)), << >>)
step_add_vx == Dispatch("add_vx") /\ Commit(add_vx(Fetched[1], Arg(1)), << >>)
step_ld_vx_digit_into_f ==
    Dispatch("ld_vx_digit_into_f") /\ Commit(ld_vx_digit_into_f(Fetched[1], Arg(1)), << >>)
step_ld_vx_into_bcd == Dispatch("ld_vx_into_bcd") /\ Commit(ld_vx_into_bcd(Fetched[1], Arg(1)), << >>)
step_ld_v0_to_vx_into_i ==
    Dispatch("ld_v0_to_vx_into_i") /\ Commit(ld_v0_to_vx_into_i(Fetched[1], Arg(1)), << >>)
step_ld_i_into_v0_to_vx ==
    Dispatch("ld_i_into_v0_to_vx") /\ Commit(ld_i_into_v0_to_vx(Fetched[1], Arg(1)), << >>)
step_unknown_opcode == Dispatch("unknown_opcode") /\ Commit(unknown_opcode(Fetched[1], Arg(1)), << >>)

\* lib.rs, emulate: Ram::new_from_rom(&rom), Cpu::new(ram, ...), then step() for ever
Init ==
    /\ overflow_checks \in BOOLEAN
    /\ rom \in Roms
    /\ cpu = Cpu_new(Ram_new_from_rom(rom))
    /\ wait = << >>
    /\ prev = cpu
    /\ last = NoStep
    /\ calls = << >>
    /\ stored = << >>
    /\ word = 0
    /\ dis = NoDis

Next ==
    \/ step_next_opcode
    \/ step_cls \/ step_ret \/ step_sys \/ step_jp \/ step_call
    \/ step_se \/ step_sne \/ step_se_reg \/ step_ldx \/ step_add_byte
    \/ step_ld \/ step_or \/ step_and \/ step_xor \/ step_add_reg \/ step_sub
    \/ step_shr \/ step_subn \/ step_shl \/ step_sne_reg
    \/ step_ldi \/ step_jp_v0 \/ step_rnd \/ step_drw \/ step_skp \/ step_sknp
    \/ step_ld_dt_into_vx \/ step_ld_k_into_vx \/ poll_ld_k_into_vx
    \/ step_ld_vx_into_dt \/ step_ld_vx_into_st \/ step_add_vx
    \/ step_ld_vx_digit_into_f \/ step_ld_vx_into_bcd
    \/ step_ld_v0_to_vx_into_i \/ step_ld_i_into_v0_to_vx
    \/ step_unknown_opcode

Spec == Init /\ [][Next]_vars

(***************************************************************************)
(* The dispatch alone: decode_opcode! applied to one instruction word, as  *)
(* the Disassembler applies it.                                            *)
(***************************************************************************)
Words == 0 .. (U16_MOD - 1)

InitDecode ==
    /\ overflow_checks = FALSE
    /\ rom = Rom_new(<< >>)
    /\ cpu = Cpu_new(Ram_new)
    /\ wait = << >>
    /\ prev = cpu
    /\ last = NoStep
    /\ calls = << >>
    /\ stored = << >>
    /\ word \in Words
    /\ dis = NoDis

decode_word ==
    /\ ~dis.done
    /\ dis' = [done |-> TRUE, h |-> decode_opcode(word).h, args |-> decode_opcode(word).args,
               text |-> Disassembler_decode(word)]
    /\ UNCHANGED <<overflow_checks, rom, cpu, wait, prev, last, calls, stored, word>>

SpecDecode == InitDecode /\ [][decode_word]_vars

(***************************************************************************)
(* Properties.                                                             *)
(***************************************************************************)
Stepped == last.h # ""
NonZero(stack) == Cardinality({s \in Slots : stack[s] # 0})
Full(stack) == \A s \in Slots : stack[s] # 0
JumpHandlers == {"ret", "jp", "call", "jp_v0"}
SkipHandlers == {"se", "sne", "se_reg", "sne_reg", "skp", "sknp"}

\* C1: for every N in 1..16, N nested CALLs followed by N RETURNs restore PC,
\* at each RETURN, to the PC saved by the matching CALL (last saved, first
\* restored), and leave the stack empty: a RETURN with 1..16 CALLs live
\* returns to the PC the innermost of them saved and ends that CALL, and
\* with no CALL live all 16 slots are zero.
C1_CallRetRoundTrip ==
    /\ (last.h = "ret" /\ Len(last.live) \in 1 .. STACK_LEN) =>
            /\ last.done
            /\ cpu.pc = last.live[Len(last.live)]
            /\ calls = SubSeq(last.live, 1, Len(last.live) - 1)
    /\ (calls = << >>) => \A s \in Slots : cpu.stack[s] = 0

\* C2: with fewer than 16 live nested calls (a zero slot left) a CALL never
\* faults; a CALL with all 16 slots occupied is a fatal fault that leaves
\* the 16 stored return addresses unchanged and does not jump (PC stays
\* where the fetch left it).
C2_CallFaultsIffFull ==
    (last.h = "call") =>
        /\ (Len(last.live) < STACK_LEN) => last.done
        /\ IF Full(prev.stack)
           THEN /\ ~last.done
                /\ cpu.panic = PANIC_CALL
                /\ cpu.stack = prev.stack
                /\ cpu.pc = last.pc
           ELSE last.done /\ cpu.pc = last.args[1]

C2_Witness ==
    /\ last.h = "call"
    /\ Len(last.live) = STACK_LEN
    /\ cpu.panic = PANIC_CALL
    /\ Full(cpu.stack)

\* C3: a RETURN executed while slot 0 of the stack is zero is a fatal fault
\* and changes no stack slot; a RETURN executed while at least one CALL is
\* live (executed and not yet returned from) never faults.
C3_RetFaultsIffNoLiveCall ==
    (last.h = "ret") =>
        /\ (prev.stack[0] = 0) =>
                /\ ~last.done
                /\ cpu.panic = PANIC_RET
                /\ cpu.stack = prev.stack
        /\ (last.live # << >>) =>
                /\ last.done
                /\ cpu.panic = NoPanic

\* C4: a step() ends in a fatal fault only for a CALL with all 16 slots
\* occupied, a RETURN with an empty stack, or an unknown opcode.
C4_OnlyThreeFaults ==
    (cpu.panic # NoPanic) =>
        \/ last.h = "call" /\ Full(prev.stack) /\ cpu.panic = PANIC_CALL
        \/ last.h = "ret" /\ prev.stack[0] = 0 /\ cpu.panic = PANIC_RET
        \/ last.h = "unknown_opcode" /\ cpu.panic = PANIC_UNKNOWN

\* the words the dispatch table of the specification leaves undefined
C5_Undefined(w) ==
    LET top == w \div \h1000
        n == w % \h10
        kk == w % \h100
    IN  \/ top = \h5 /\ n # 0
        \/ top = \h8 /\ n \in {\h8, \h9, \hA, \hB, \hC, \hD, \hF}
        \/ top = \h9 /\ n # 0
        \/ top = \hE /\ kk \notin {\h9E, \hA1}
        \/ top = \hF /\ kk \notin {\h07, \h0A, \h15, \h18, \h1E, \h29, \h33, \h55, \h65}

\* C5: a word that matches no pattern of the dispatch table (5XYN with
\* N # 0, 8XYN with N in 8..D or F, 9XYN with N # 0, EXKK and FXKK with an
\* undefined KK) is routed to the unknown-opcode handler, and every other
\* word to one of the 35 defined operations.
C5_UndefinedWordsAreUnknown ==
    dis.done => (dis.h = "unknown_opcode" <=> C5_Undefined(word))

\* C6: the disassembler renders each word under the mnemonic of the
\* operation the dispatch selects, with the handler's operands (1NNN as
\* JP 0xNNN, 8XY4 as ADD VX, VY, 8XY6 as SHR VX, 8XYE as SHL VX), so that
\* two words that select different operations never render to the same text.
C6_MnemonicOfOperation ==
    dis.done =>
        /\ dis.h = "jp" => dis.text = "JP 0x" \o FmtX(dis.args[1])
        /\ dis.h = "add_reg" =>
                dis.text = "ADD V" \o FmtX(dis.args[1]) \o ", V" \o FmtX(dis.args[2])
        /\ dis.h = "shr" => dis.text = "SHR V" \o FmtX(dis.args[1])
        /\ dis.h = "shl" => dis.text = "SHL V" \o FmtX(dis.args[1])
        /\ \A w \in TestWords :
                decode_opcode(w).h # dis.h => Disassembler_decode(w) # dis.text

\* what a timer holds one step after holding t
C7_Countdown(t) == IF t > 0 THEN t - 1 ELSE 0

\* C7: after every step() that completes, DT = DT before - 1 if that was
\* > 0, else 0, unless the instruction is LD DT, Vx; the same for ST and
\* LD ST, Vx; neither timer ever leaves 0..255.
C7_TimersCountDown ==
    /\ cpu.dt \in 0 .. 255
    /\ cpu.st \in 0 .. 255
    /\ (last.done /\ last.h # "ld_vx_into_dt") => cpu.dt = C7_Countdown(prev.dt)
    /\ (last.done /\ last.h # "ld_vx_into_st") => cpu.st = C7_Countdown(prev.st)

C7_Witness ==
    /\ last.done
    /\ last.h \notin {"ld_vx_into_dt", "ld_vx_into_st"}
    /\ prev.dt > 1
    /\ prev.st = 0
    /\ cpu.dt = prev.dt - 1
    /\ cpu.st = 0

\* C8: for every memory content and every PC, step() decodes the big-endian
\* word 256*mem[PC mod 4096] + mem[(PC+1) mod 4096] and advances PC by 2
\* before the handler runs; after an instruction that is no jump, call,
\* return or taken skip PC = PC before + 2 (+ 4 after a taken skip).
C8_FetchAndAdvance ==
    (Stepped /\ last.h # "next_opcode") =>
        /\ last.op = 256 * lb(prev.ram, prev.pc % 4096) + lb(prev.ram, (prev.pc + 1) % 4096)
        /\ last.pc = prev.pc + 2
        /\ (last.done /\ last.h \notin (JumpHandlers \cup SkipHandlers)) =>
                cpu.pc = prev.pc + 2
        /\ (last.done /\ last.h \in SkipHandlers) => cpu.pc \in {prev.pc + 2, prev.pc + 4}

\* C9 as stated: in every state reachable by step() from the initial state,
\* for any loaded program, PC is never 0.
C9_PcNeverZero == cpu.pc # 0

\* C9, amended: PC is 0 only right after a JP or CALL to address 0 or a
\* JP V0 whose NNN + V0 is 0, or after PC + 2 wrapped past 0xFFFF (in the
\* fetch or in a skip); no RETURN and no other instruction makes it 0.
C9_PcZeroOnlyByJumpOrWrap ==
    (cpu.pc = 0) =>
        \/ last.h \in {"jp", "call"} /\ last.done /\ last.args[1] = 0
        \/ last.h = "jp_v0" /\ last.done /\ last.args[1] = 0 /\ prev.v[0] = 0
        \/ Stepped /\ last.pc = 0 /\ prev.pc = \hFFFE /\ ~overflow_checks
        \/ last.h \in SkipHandlers /\ last.pc = \hFFFE /\ ~overflow_checks

C9_Witness ==
    /\ cpu.pc = 0
    /\ last.h = "jp"
    /\ prev.pc # 0

\* C10: every CALL that step() executes without fault stores a nonzero
\* return address, so it raises the number of nonzero stack slots by one.
C10_CallStoresNonzero ==
    (last.h = "call" /\ last.done) =>
        /\ last.pc # 0
        /\ NonZero(cpu.stack) = NonZero(prev.stack) + 1

(***************************************************************************)
(* cpu.rs, the register-register handlers called on their own, as the     *)
(* unit tests of cpu.rs call them: `word` is an 8XYN word, decode_opcode!  *)
(* gives the handler and its registers.                                    *)
(***************************************************************************)
NumAlu == 6
\* the operand pairs tried: the sample values in every pair of registers,
\* and every 8-bit value against each sample value in V1 and V2
AluPairs(w) ==
    LET samples == {SampleVals[k] : k \in 1 .. NumAlu}
    IN  IF Nib2(w) = 1 /\ Nib3(w) = 2
        THEN ((0 .. \hFF) \X samples) \cup (samples \X (0 .. \hFF))
        ELSE samples \X samples

\* registers before the call: Vx = a, Vy = b (Vx = Vy = a when x = y), VF = f
\* (VF = a when x = F, b when y = F), every other register a value of its own
AluRegs(x, y, a, b, f) ==
    [k \in Regs |->
        IF k = x THEN a
        ELSE IF k = y THEN b
        ELSE IF k = \hF THEN f
        ELSE \hA0 + k]

\* the handler h called on its own: c is the CPU it leaves
HandlerCall(h, c) ==
    /\ cpu' = c
    /\ prev' = cpu
    /\ last' = [NoStep EXCEPT !.op = word, !.h = h, !.args = decode_opcode(word).args,
                              !.pc = cpu.pc, !.done = TRUE]
    /\ UNCHANGED <<overflow_checks, rom, wait, calls, word, dis>>

InitAlu ==
    /\ overflow_checks = TRUE
    /\ rom = Rom_new(<< >>)
    /\ word \in {\h8000 + x * \h100 + y * \h10 + n :
                    x \in Regs, y \in Regs, n \in {\h4, \h5, \h6, \h7, \hE}}
    /\ \E p \in AluPairs(word), f \in {0, 1} :
            cpu = [Cpu_new(Ram_new) EXCEPT
                      !.v = AluRegs(Nib2(word), Nib3(word), p[1], p[2], f)]
    /\ wait = << >>
    /\ prev = cpu
    /\ last = NoStep
    /\ calls = << >>
    /\ stored = << >>
    /\ dis = NoDis

alu_add_reg ==
    /\ last.h = ""
    /\ decode_opcode(word).h = "add_reg"
    /\ HandlerCall("add_reg", add_reg(cpu, Nib2(word), Nib3(word)))
    /\ UNCHANGED stored

alu_sub ==
    /\ last.h = ""
    /\ decode_opcode(word).h = "sub"
    /\ HandlerCall("sub", sub(cpu, Nib2(word), Nib3(word)))
    /\ UNCHANGED stored

alu_subn ==
    /\ last.h = ""
    /\ decode_opcode(word).h = "subn"
    /\ HandlerCall("subn", subn(cpu, Nib2(word), Nib3(word)))
    /\ UNCHANGED stored

alu_shr ==
    /\ last.h = ""
    /\ decode_opcode(word).h = "shr"
    /\ HandlerCall("shr", shr(cpu, Nib2(word)))
    /\ UNCHANGED stored

alu_shl ==
    /\ last.h = ""
    /\ decode_opcode(word).h = "shl"
    /\ HandlerCall("shl", shl(cpu, Nib2(word)))
    /\ UNCHANGED stored

SpecAlu == InitAlu /\ [][alu_add_reg \/ alu_sub \/ alu_subn \/ alu_shr \/ alu_shl]_vars

\* the registers an 8XYN word names, and what they held before the call
AluX == Nib2(word)
AluY == Nib3(word)
AluA == prev.v[AluX]
AluB == prev.v[AluY]
\* every field of the CPU but the registers x and F is as before the call
AluFrame ==
    /\ \A k \in Regs \ {AluX, \hF} : cpu.v[k] = prev.v[k]
    /\ [cpu EXCEPT !.v = prev.v] = prev

\* C11: for 8-bit a = Vx, b = Vy, x in 0..E, y in 0..F (x = y included),
\* ADD Vx,Vy leaves Vx = (a + b) mod 256 and VF = 1 if a + b > 255, else 0,
\* whatever VF held before; Vy is unchanged when y is neither x nor F.
C11_AddReg ==
    (last.h = "add_reg" /\ AluX \in 0 .. \hE) =>
        /\ cpu.v[AluX] = (AluA + AluB) % 256
        /\ cpu.v[\hF] = IF AluA + AluB > 255 THEN 1 ELSE 0
        /\ AluY \notin {AluX, \hF} => cpu.v[AluY] = AluB
        /\ AluFrame

C11_Witness ==
    /\ last.h = "add_reg"
    /\ AluX = AluY
    /\ AluA >= 128
    /\ prev.v[\hF] = 0
    /\ cpu.v[AluX] = 2 * AluA - 256
    /\ cpu.v[\hF] = 1

\* C12: for 8-bit a = Vx, b = Vy and x in 0..E, SUB Vx,Vy leaves
\* Vx = (a - b) mod 256 and VF = 1 iff a > b; SUBN Vx,Vy leaves
\* Vx = (b - a) mod 256 and VF = 1 iff b > a; a = b gives 0 and VF = 0.
C12_SubSubn ==
    /\ (last.h = "sub" /\ AluX \in 0 .. \hE) =>
            /\ cpu.v[AluX] = (AluA - AluB) % 256
            /\ cpu.v[\hF] = IF AluA > AluB THEN 1 ELSE 0
            /\ AluA = AluB => cpu.v[AluX] = 0 /\ cpu.v[\hF] = 0
            /\ AluFrame
    /\ (last.h = "subn" /\ AluX \in 0 .. \hE) =>
            /\ cpu.v[AluX] = (AluB - AluA) % 256
            /\ cpu.v[\hF] = IF AluB > AluA THEN 1 ELSE 0
            /\ AluA = AluB => cpu.v[AluX] = 0 /\ cpu.v[\hF] = 0
            /\ AluFrame

C12_Witness ==
    /\ last.h = "subn"
    /\ AluA > AluB
    /\ AluX # AluY
    /\ cpu.v[AluX] = AluB - AluA + 256
    /\ cpu.v[\hF] = 0
    /\ prev.v[\hF] = 1

\* C13: for 8-bit v = Vx and x in 0..E, SHR Vx leaves VF = v mod 2 and
\* Vx = v div 2; SHL Vx leaves VF = v div 128 and Vx = (2 * v) mod 256;
\* Vy is neither read nor written.
C13_Shifts ==
    /\ (last.h = "shr" /\ AluX \in 0 .. \hE) =>
            /\ cpu.v[\hF] = AluA % 2
            /\ cpu.v[AluX] = AluA \div 2
            /\ AluFrame
    /\ (last.h = "shl" /\ AluX \in 0 .. \hE) =>
            /\ cpu.v[\hF] = AluA \div 128
            /\ cpu.v[AluX] = (2 * AluA) % 256
            /\ AluFrame

C13_Witness ==
    /\ last.h = "shl"
    /\ AluA >= 128
    /\ AluY \notin {AluX, \hF}
    /\ AluB # AluA
    /\ cpu.v[\hF] = 1
    /\ cpu.v[AluY] = AluB

(***************************************************************************)
(* cpu.rs, ld_vx_digit_into_f, ld_vx_into_bcd, ld_v0_to_vx_into_i and      *)
(* ld_i_into_v0_to_vx called on their own: `word` is FX29, FX33, FX55 or   *)
(* FX65; an FX65 is tried on the memory as found and after an FX55 at the  *)
(* same I and an overwriting of the registers.                             *)
(***************************************************************************)
NumBlockI == 5
\* register files: V[k] = (m * k + d) mod 256
BlockRegs == {[k \in Regs |-> (p[1] * k + p[2]) % 256] :
                 p \in {<<0, 0>>, <<0, \hFF>>, <<1, 1>>, <<\h11, \h80>>}}

InitBlock ==
    /\ overflow_checks \in BOOLEAN
    /\ rom = Rom_new(Bytes(<< \h1200 >>))
    /\ word \in {\hF000 + x * \h100 + kk : x \in Regs, kk \in {\h29, \h33, \h55, \h65}}
    /\ \E i \in {<< \h000, \hFF4, \h300, \h04C, \hFFF, \hFFE, \h1FF >>[k] :
                    k \in 1 .. NumBlockI},
          regs \in BlockRegs, val \in 0 .. \hFF :
            /\ LowByte(word) \in {\h29, \h33} => regs = [k \in Regs |-> k + 1]
            /\ LowByte(word) \notin {\h29, \h33} => val = regs[Nib2(word)]
            /\ cpu = [Cpu_new(Ram_new_from_rom(rom)) EXCEPT
                         !.i = i, !.v = [regs EXCEPT ![Nib2(word)] = val]]
    /\ wait = << >>
    /\ prev = cpu
    /\ last = NoStep
    /\ calls = << >>
    /\ stored = << >>
    /\ dis = NoDis

blk_ld_vx_digit_into_f ==
    /\ last.h = ""
    /\ decode_opcode(word).h = "ld_vx_digit_into_f"
    /\ HandlerCall("ld_vx_digit_into_f", ld_vx_digit_into_f(cpu, Nib2(word)))
    /\ UNCHANGED stored

blk_ld_vx_into_bcd ==
    /\ last.h = ""
    /\ decode_opcode(word).h = "ld_vx_into_bcd"
    /\ HandlerCall("ld_vx_into_bcd", ld_vx_into_bcd(cpu, Nib2(word)))
    /\ UNCHANGED stored

blk_ld_v0_to_vx_into_i ==
    /\ last.h = ""
    /\ decode_opcode(word).h \in {"ld_v0_to_vx_into_i", "ld_i_into_v0_to_vx"}
    /\ HandlerCall("ld_v0_to_vx_into_i", ld_v0_to_vx_into_i(cpu, Nib2(word)))
    /\ stored' = cpu.v

\* ldx on every register, with one value or with the complement of its own
blk_ldx ==
    /\ last.h = "ld_v0_to_vx_into_i"
    /\ decode_opcode(word).h = "ld_i_into_v0_to_vx"
    /\ \E val \in {-1, \h00, \hFF} :
            HandlerCall("ldx",
                [cpu EXCEPT !.v = [k \in Regs |->
                    ldx(cpu, k, IF val = -1 THEN \hFF - cpu.v[k] ELSE val).v[k]]])
    /\ UNCHANGED stored

blk_ld_i_into_v0_to_vx ==
    /\ last.h \in {"", "ldx"}
    /\ decode_opcode(word).h = "ld_i_into_v0_to_vx"
    /\ HandlerCall("ld_i_into_v0_to_vx", ld_i_into_v0_to_vx(cpu, Nib2(word)))
    /\ UNCHANGED stored

SpecBlock ==
    InitBlock /\ [][blk_ld_vx_digit_into_f \/ blk_ld_vx_into_bcd \/ blk_ld_v0_to_vx_into_i
                        \/ blk_ldx \/ blk_ld_i_into_v0_to_vx]_vars

\* the addresses I .. I + n - 1, taken mod 4096
BlockAddrs(n) == {(prev.i + k) % 4096 : k \in 0 .. (n - 1)}
\* every memory byte outside `addrs` is as before the call (a byte that is
\* in neither memory map is zero in both)
RamFrame(addrs) ==
    \A a \in ((DOMAIN cpu.ram) \cup (DOMAIN prev.ram)) \ addrs :
        lb(cpu.ram, a) = lb(prev.ram, a)

\* C14: for every 8-bit v = Vx and every I in 0..0xFFF, LD B,Vx writes
\* v div 100 at I, (v div 10) mod 10 at I+1 and v mod 10 at I+2 (addresses
\* mod 4096), and changes neither I, nor a register, nor another byte.
C14_Bcd ==
    (last.h = "ld_vx_into_bcd") =>
        LET v == prev.v[Nib2(word)]
        IN  /\ cpu.panic = NoPanic
            /\ lb(cpu.ram, prev.i % 4096) = v \div 100
            /\ lb(cpu.ram, (prev.i + 1) % 4096) = (v \div 10) % 10
            /\ lb(cpu.ram, (prev.i + 2) % 4096) = v % 10
            /\ RamFrame(BlockAddrs(3))
            /\ [cpu EXCEPT !.ram = prev.ram] = prev

C14_Witness ==
    /\ last.h = "ld_vx_into_bcd"
    /\ prev.i = \hFFF
    /\ prev.v[Nib2(word)] = 7
    /\ lb(prev.ram, 0) = \hF0
    /\ lb(cpu.ram, \hFFF) = 0
    /\ lb(cpu.ram, 0) = 0
    /\ lb(cpu.ram, 1) = 7

\* C15: for every register content, every x in 0..15 and every I in
\* 0..0xFFF, LD [I],Vx, then any overwriting of the registers, then
\* LD Vx,[I] with the same I restores V0..Vx to their values at the store.
C15_BlockRoundTrip ==
    (last.h = "ld_i_into_v0_to_vx" /\ stored # << >>) =>
        /\ cpu.panic = NoPanic
        /\ \A k \in 0 .. Nib2(word) : cpu.v[k] = stored[k]

C15_Witness ==
    /\ last.h = "ld_i_into_v0_to_vx"
    /\ stored # << >>
    /\ Nib2(word) = \hF
    /\ prev.i = \hFF4
    /\ \A k \in Regs : prev.v[k] # stored[k]
    /\ cpu.v = stored

NumRomLens == 6
\* the slices of new_from_rom are in range: mem[0x200..0x200 + length] and
\* data[0..length]
Ram_new_from_rom_in_range(r) == \h200 + r.length <= MEM_SIZE /\ r.length <= ROM_MAX

InitRam ==
    /\ overflow_checks = TRUE
    /\ \E n \in {<< 0, 3232, 1, 3233, 2, 3231, 80, 4000 >>[k] : k \in 1 .. NumRomLens},
          m \in {0, 7} :
            rom = Rom_new([k \in 1 .. n |-> (m * k + \hFA) % 256])
    /\ cpu \in {Cpu_new(Ram_new), Cpu_new(Ram_new_from_rom(rom))}
    /\ wait = << >>
    /\ prev = cpu
    /\ last = NoStep
    /\ calls = << >>
    /\ stored = << >>
    /\ word = 0
    /\ dis = NoDis

\* 16-bit addresses: the ends of the font, of the program area and of the
\* memory, and what aliases them
RamAddrs ==
    {\h0000, \h004F, \h0200, \h0E9F, \h0FFF, \h1000, \h1200, \h204F, \hFE9F, \hFFFF}

ram_lb ==
    /\ last.h = ""
    /\ \E addr \in RamAddrs :
            last' = [NoStep EXCEPT !.h = "lb", !.args = <<addr>>,
                                   !.env = <<lb(cpu.ram, addr)>>, !.done = TRUE]
    /\ prev' = cpu
    /\ UNCHANGED <<overflow_checks, rom, cpu, wait, calls, stored, word, dis>>

ram_sb ==
    /\ last.h = ""
    /\ \E addr \in RamAddrs, value \in {\h00, \h01, \hFA, \hFF} :
            /\ cpu' = [cpu EXCEPT !.ram = sb(cpu.ram, addr, value)]
            /\ last' = [NoStep EXCEPT !.h = "sb", !.args = <<addr, value>>, !.done = TRUE]
    /\ prev' = cpu
    /\ UNCHANGED <<overflow_checks, rom, wait, calls, stored, word, dis>>

SpecRam == InitRam /\ [][ram_lb \/ ram_sb]_vars

\* the byte C18 places at address a (0..4095) of a memory built from `rom`
C18_Layout(a) ==
    IF a < \h050 THEN FONT_DATA[a + 1]
    ELSE IF a >= \h200 /\ a < \h200 + rom.length THEN rom.data[a - \h200 + 1]
    ELSE 0

\* what the memory before the call holds at a (0..4095): nothing is stored
\* between construction and the call
C17_Stored(a) == IF prev.ram = Ram_new THEN 0 ELSE C18_Layout(a)

\* C17: for every 16-bit address a, load_byte(a) returns the byte stored at
\* a mod 4096 and changes nothing; store_byte(a, v) changes exactly the
\* byte at a mod 4096 (0x1200 aliases 0x200); neither ever faults.
C17_AddressMasking ==
    /\ (last.h = "lb") =>
            /\ last.env[1] = C17_Stored(last.args[1] % 4096)
            /\ cpu = prev
    /\ (last.h = "sb") =>
            /\ \A p \in RamAddrs :
                    lb(cpu.ram, p) = IF p % 4096 = last.args[1] % 4096
                                     THEN last.args[2]
                                     ELSE C17_Stored(p % 4096)
            /\ RamFrame({last.args[1] % 4096})
            /\ [cpu EXCEPT !.ram = prev.ram] = prev

C17_Witness ==
    /\ last.h = "sb"
    /\ last.args = << \h1200, \h01 >>
    /\ lb(prev.ram, \h200) = \hFA
    /\ lb(cpu.ram, \h200) = \h01
    /\ lb(cpu.ram, \h201) = lb(prev.ram, \h201)

\* C18: memory built from a ROM of length L (0 <= L <= 3232) holds the 80
\* font bytes at 0x000..0x04F, ROM byte k at 0x200 + k for every k < L and
\* zero at every other address; construction never faults for such an L;
\* empty memory is all zero.
C18_RomLayout ==
    (last.h # "sb") =>
        /\ rom.length \in 0 .. 3232
        /\ Ram_new_from_rom_in_range(rom)
        /\ \A a \in 0 .. 4095 :
                lb(cpu.ram, a) = IF cpu.ram = Ram_new THEN 0 ELSE C18_Layout(a)

C18_Witness ==
    /\ last.h = "lb"
    /\ last.args[1] = \hFE9F
    /\ last.env[1] # 0
    /\ rom.length = 3232
    /\ lb(cpu.ram, \h04F) = \h80
    /\ lb(cpu.ram, \h050) = 0
    /\ lb(cpu.ram, \h200) # 0
    /\ lb(cpu.ram, \hE9F) # 0
    /\ lb(cpu.ram, \hEA0) = 0

\* C19: a step() that fetches an undefined word faults fatally; at the
\* fault no register, I, stack slot, timer or memory byte has been modified:
\* only PC has advanced by 2, and the timers are not decremented.
C19_UnknownOpcodeFrame ==
    (Stepped /\ last.h # "next_opcode" /\ C5_Undefined(last.op)) =>
        /\ ~last.done
        /\ cpu = [prev EXCEPT !.pc = prev.pc + 2, !.panic = PANIC_UNKNOWN]

(***************************************************************************)
(* lib.rs, disasm and disassembler.rs, Disassembler::disasm: `dis` is the  *)
(* Disassembler (pc, ram), the addresses of the lines printed so far, the  *)
(* text of the last one, and whether the loop has been left.               *)
(***************************************************************************)
NumDisLens == 7

\* Disassembler::next_opcode: <<pc of the opcode, opcode, pc after it>>
Disassembler_next_opcode(d) ==
    LET hi == lb(d.ram, d.pc) * \h100
        low == lb(d.ram, d.pc + 1)
    IN  <<d.pc, low + hi, d.pc + 2>>

InitDisasm ==
    /\ overflow_checks = TRUE
    /\ \E n \in {<< 0, 1, 2, 3, 8, 3232, 3231, 9, 4000 >>[k] : k \in 1 .. NumDisLens},
          words \in {<< \h0000 >>, << \hFFFF, \h5121, \h812E, \h1ABC, \h00EE, \hE19F >>} :
            rom = Rom_new([k \in 1 .. n |-> Bytes(words)[((k - 1) % (2 * Len(words))) + 1]])
    /\ dis = [pc |-> \h200, ram |-> Ram_new_from_rom(rom), lines |-> << >>,
              text |-> "", done |-> FALSE]
    /\ cpu = Cpu_new(Ram_new)
    /\ wait = << >>
    /\ prev = cpu
    /\ last = NoStep
    /\ calls = << >>
    /\ stored = << >>
    /\ word = 0

\* one turn of the loop of Disassembler::disasm(rom.length as u16)
disasm ==
    /\ ~dis.done
    /\ LET op == Disassembler_next_opcode(dis)
       IN  dis' = [dis EXCEPT !.pc = op[3],
                              !.lines = Append(dis.lines, op[1]),
                              !.text = Disassembler_decode(op[2]),
                              !.done = (op[3] >= \h200 + rom.length)]
    /\ UNCHANGED <<overflow_checks, rom, cpu, wait, prev, last, calls, stored, word>>

SpecDisasm == InitDisasm /\ [][disasm]_vars

\* C20: for every ROM length L in 0..3232 and any memory contents
\* (undecodable words are rendered as text), the disassembly loop emits
\* lines for addresses 0x200, 0x202, 0x204, ... in strictly ascending order
\* and stops as soon as the cursor is >= 0x200 + L: no line is emitted with
\* the cursor at or past the end of the ROM, and the loop is left exactly
\* when the cursor has got there.
C20_DisasmStopsAtRomEnd ==
    /\ rom.length \in 0 .. 3232
    /\ \A k \in 1 .. Len(dis.lines) :
            /\ dis.lines[k] = \h200 + 2 * (k - 1)
            /\ dis.lines[k] < \h200 + rom.length
    /\ dis.pc = \h200 + 2 * Len(dis.lines)
    /\ dis.done <=> (dis.lines # << >> /\ dis.pc >= \h200 + rom.length)

\* the operand fields of the dispatch table of the specification
C21_x == BitAnd(Shr(word, 8), \hF)
C21_y == BitAnd(Shr(word, 4), \hF)
C21_n == BitAnd(word, \hF)
C21_kk == BitAnd(word, \hFF)
C21_addr == BitAnd(word, \hFFF)

\* C21: for every word, the dispatcher passes the handler the operand
\* fields the table gives its family (x = (op >> 8) & 0xF, y = (op >> 4) &
\* 0xF, n = op & 0xF, kk = op & 0xFF, addr = op & 0xFFF); 0x00E0 and 0x00EE
\* are decoded as clear-display and return, never as the 0NNN call.
C21_OperandFields ==
    dis.done =>
        /\ dis.h \in {"sys", "jp", "call", "ldi", "jp_v0"} => dis.args = <<C21_addr>>
        /\ dis.h \in {"se", "sne", "ldx", "add_byte", "rnd"} => dis.args = <<C21_x, C21_kk>>
        /\ dis.h \in {"se_reg", "ld", "or", "and", "xor", "add_reg", "sub", "subn",
                      "sne_reg"} => dis.args = <<C21_x, C21_y>>
        /\ dis.h \in {"shr", "shl", "skp", "sknp", "ld_dt_into_vx", "ld_k_into_vx",
                      "ld_vx_into_dt", "ld_vx_into_st", "add_vx", "ld_vx_digit_into_f",
                      "ld_vx_into_bcd", "ld_v0_to_vx_into_i", "ld_i_into_v0_to_vx"} =>
                dis.args = <<C21_x>>
        /\ dis.h = "drw" => dis.args = <<C21_x, C21_y, C21_n>>
        /\ dis.h = "cls" <=> word = \h00E0
        /\ dis.h = "ret" <=> word = \h00EE
        /\ dis.h = "sys" <=> (word < \h1000 /\ word \notin {\h00E0, \h00EE})

C21_Witness ==
    /\ dis.done
    /\ word = \hD5A7
    /\ dis.h = "drw"
    /\ dis.args = << \h5, \hA, \h7 >>

\* the timers after the decrement that ends a step
C23_Tick(t) == IF t > 0 THEN t - 1 ELSE 0

\* C22: LD Vx,K executed with a snapshot in which at least one key is
\* pressed stores in Vx the lowest index among the pressed keys of that
\* snapshot and changes no other register.
C22_LowestPressedKey ==
    (last.h = "ld_k_into_vx" /\ last.done) =>
        LET x == last.args[1]
        IN  /\ \E k \in Keys : last.env[k]
            /\ cpu.v[x] \in Keys
            /\ last.env[cpu.v[x]]
            /\ \A j \in Keys : last.env[j] => cpu.v[x] <= j
            /\ \A r \in Regs : r # x => cpu.v[r] = prev.v[r]

C22_Witness ==
    /\ last.h = "ld_k_into_vx"
    /\ last.done
    /\ last.env[1] /\ last.env[15]
    /\ prev.v[1] = \hFF
    /\ cpu.v[1] = 1

C26_Top(stack) == CHOOSE s \in Slots : stack[s] # 0 /\ \A t \in (s + 1) .. (STACK_LEN - 1) : stack[t] = 0

\* C26: RETURN on a non-empty stack sets PC to the value of the
\* highest-index occupied slot (slot i - 1 where i is the first zero slot,
\* slot 15 when no slot is zero), zeroes exactly that slot, and leaves all
\* other slots, all registers, I and memory unchanged.
C26_ReturnPopsTop ==
    (last.h = "ret" /\ NonZero(prev.stack) > 0) =>
        LET top == C26_Top(prev.stack)
        IN  /\ last.done
            /\ top = (IF \E s \in Slots : prev.stack[s] = 0
                      THEN (CHOOSE i \in Slots : prev.stack[i] = 0 /\ \A t \in 0 .. (i - 1) : prev.stack[t] # 0) - 1
                      ELSE 15)
            /\ cpu.pc = prev.stack[top]
            /\ cpu.stack = [prev.stack EXCEPT ![top] = 0]
            /\ cpu.v = prev.v
            /\ cpu.i = prev.i
            /\ cpu.ram = prev.ram

C26_Witness ==
    /\ last.h = "ret"
    /\ last.done
    /\ Full(prev.stack)
    /\ cpu.pc = prev.stack[15]
    /\ cpu.stack[15] = 0
    /\ cpu.stack[14] = prev.stack[14]

\* C27: in every state reached through CALLs and RETURNs from the empty
\* stack the nonzero slots form a contiguous prefix of the 16 slots (no
\* zero slot lies below a nonzero one), so the first zero slot is the slot
\* just above the highest occupied one.
C27_StackIsPrefix ==
    /\ \A s \in Slots : cpu.stack[s] # 0 => \A t \in 0 .. (s - 1) : cpu.stack[t] # 0
    /\ \A s \in Slots :
        (cpu.stack[s] = 0 /\ \A t \in 0 .. (s - 1) : cpu.stack[t] # 0) =>
            \A u \in s .. (STACK_LEN - 1) : cpu.stack[u] = 0

C27_Witness ==
    /\ last.h = "ret"
    /\ last.done
    /\ NonZero(prev.stack) = 3
    /\ NonZero(cpu.stack) = 2
    /\ cpu.stack[0] # 0 /\ cpu.stack[1] # 0

C25_CallSavesNextAddress ==
    /\ (last.h = "call" /\ ~Full(prev.stack)) =>
            LET slot == CHOOSE s \in Slots : prev.stack[s] = 0 /\ \A t \in 0 .. (s - 1) : prev.stack[t] # 0
            IN  /\ last.done
                /\ cpu.stack = [prev.stack EXCEPT ![slot] = prev.pc + 2]
                /\ cpu.pc = last.args[1]
    /\ (last.h = "ret" /\ last.live # << >>) =>
            /\ last.done
            /\ cpu.pc = last.live[Len(last.live)]

\* C28: SE Vx,KK skips iff Vx = KK, SNE Vx,KK iff Vx # KK, SE Vx,Vy (5XY0)
\* iff Vx = Vy, SNE Vx,Vy (9XY0) iff Vx # Vy; after the step at address a,
\* PC = a + 4 when the skip is taken and a + 2 otherwise, and no register
\* changes.
C28_CompareSkips ==
    (last.h \in {"se", "sne", "se_reg", "sne_reg"} /\ (last.h \in {"se_reg", "sne_reg"} => last.op % 16 = 0)) =>
        LET vx == prev.v[last.args[1]]
            other == IF last.h \in {"se", "sne"} THEN last.args[2] ELSE prev.v[last.args[2]]
            skips == IF last.h \in {"se", "se_reg"} THEN vx = other ELSE vx # other
        IN  /\ last.done
            /\ cpu.pc = prev.pc + (IF skips THEN 4 ELSE 2)
            /\ cpu.v = prev.v

\* C24: after ADD, SUB, SUBN, SHR or SHL with any destination register x
\* in 0..F, x = F included, VF holds the operation's flag bit (carry,
\* not-borrow, or the bit shifted out) and is therefore 0 or 1.
C24_FlagInVF ==
    (last.h \in {"add_reg", "sub", "subn", "shr", "shl"}) =>
        /\ cpu.v[\hF] \in {0, 1}
        /\ cpu.v[\hF] = 1 <=>
                \/ last.h = "add_reg" /\ AluA + AluB > 255
                \/ last.h = "sub" /\ AluA > AluB
                \/ last.h = "subn" /\ AluB > AluA
                \/ last.h = "shr" /\ AluA % 2 = 1
                \/ last.h = "shl" /\ AluA >= 128

\* C30: for every digit value Vx in 0..15, LD F,Vx sets I = 5 * Vx, the
\* address of the first of the 5 bytes of glyph Vx in the font table that
\* memory construction places at 0x000..0x04F; no register is changed.
C30_GlyphAddress ==
    (last.h = "ld_vx_digit_into_f" /\ prev.v[Nib2(word)] \in 0 .. 15) =>
        LET digit == prev.v[Nib2(word)]
        IN  /\ cpu.panic = NoPanic
            /\ cpu.i = 5 * digit
            /\ cpu.i + 4 <= \h04F
            /\ \A k \in 0 .. 4 : lb(cpu.ram, cpu.i + k) = FONT_DATA[5 * digit + k + 1]
            /\ cpu.v = prev.v
            /\ [cpu EXCEPT !.i = prev.i] = prev

C30_Witness ==
    /\ last.h = "ld_vx_digit_into_f"
    /\ prev.v[Nib2(word)] = \hF
    /\ prev.i = \h300
    /\ cpu.i = \h4B
    /\ << lb(cpu.ram, \h4B), lb(cpu.ram, \h4C), lb(cpu.ram, \h4D), lb(cpu.ram, \h4E),
          lb(cpu.ram, \h4F) >> = << \hF0, \h80, \hF0, \h80, \h80 >>

\* C31: a step executing LD DT,Vx with Vx = n > 0 leaves DT = n - 1, the
\* value just loaded being decremented by the same step's timer update
\* (likewise LD ST,Vx for ST); a LD Vy,DT executed in the very next step
\* reads n - 1; n = 0 leaves the timer at 0.
C31_LoadedTimerTicksAtOnce ==
    [][/\ (last'.h = "ld_vx_into_dt" /\ last'.done) =>
                cpu'.dt = (IF cpu.v[last'.args[1]] > 0 THEN cpu.v[last'.args[1]] - 1 ELSE 0)
       /\ (last'.h = "ld_vx_into_st" /\ last'.done) =>
                cpu'.st = (IF cpu.v[last'.args[1]] > 0 THEN cpu.v[last'.args[1]] - 1 ELSE 0)
       /\ (last.h = "ld_vx_into_dt" /\ last.done /\ last'.h = "ld_dt_into_vx" /\ last'.done) =>
                cpu'.v[last'.args[1]] =
                    (IF prev.v[last.args[1]] > 0 THEN prev.v[last.args[1]] - 1 ELSE 0)]_vars

C31_Witness ==
    /\ last.h = "ld_dt_into_vx"
    /\ last.done
    /\ lb(prev.ram, prev.pc - 2) = \hF1 /\ lb(prev.ram, prev.pc - 1) = \h15
    /\ prev.v[1] = \hFF
    /\ prev.dt = \hFE
    /\ prev.st = \hFD
    /\ cpu.v[2] = \hFE

\* C32: while every snapshot reports no key pressed, a step executing
\* LD Vx,K does not complete and changes no CPU state (registers, I, stack
\* and both timers stay as they were after the fetch); when a later
\* snapshot reports a pressed key the step completes at that snapshot, and
\* only then are the timers decremented, once.
C32_KeyWait ==
    /\ (wait # << >>) =>
            /\ last.h = "ld_k_into_vx"
            /\ ~last.done
            /\ \A k \in Keys : ~last.env[k]
            /\ cpu = [prev EXCEPT !.pc = prev.pc + 2]
    /\ (last.h = "ld_k_into_vx") =>
            /\ last.done <=> \E k \in Keys : last.env[k]
            /\ last.done <=> wait = << >>
            /\ last.done =>
                    /\ cpu.dt = C23_Tick(prev.dt)
                    /\ cpu.st = C23_Tick(prev.st)
                    /\ [cpu EXCEPT !.v = prev.v, !.dt = prev.dt, !.st = prev.st]
                            = [prev EXCEPT !.pc = prev.pc + 2]

C32_Witness ==
    /\ wait = << 1 >>
    /\ last.h = "ld_k_into_vx"
    /\ ~last.done
    /\ prev.dt > 1
    /\ prev.st > 1
    /\ cpu.dt = prev.dt
    /\ cpu.st = prev.st
    /\ cpu.v = prev.v

\* C34: memory is modified only by LD B,Vx and LD [I],Vx: a step executing
\* any other instruction, whether it completes or faults, leaves all 4096
\* bytes of memory (font table and loaded program included) unchanged.
C34_OnlyStoresWriteMemory ==
    (Stepped /\ last.h \notin {"ld_vx_into_bcd", "ld_v0_to_vx_into_i"}) =>
        RamFrame({})

C34_Witness ==
    /\ last.h = "ld_i_into_v0_to_vx"
    /\ last.done
    /\ cpu.v # prev.v
    /\ cpu.ram = prev.ram
    /\ \E a \in \h200 .. \h20F : lb(cpu.ram, a) # 0
    /\ lb(cpu.ram, 0) = \hF0

\* C33: every line the disassembler emits is for an instruction address a
\* with 0x200 <= a < 0x200 + L, L the ROM length, for every L in 0..3232
\* (L = 0 and odd L included); no line is emitted for an address outside
\* the loaded program.
C33_LinesInsideProgram ==
    (rom.length \in 0 .. 3232) =>
        \A k \in 1 .. Len(dis.lines) :
            /\ \h200 <= dis.lines[k]
            /\ dis.lines[k] < \h200 + rom.length

====
